---- MODULE Spec2Model ----
(***************************************************************************)
(* A model of snk's dynamic command line: the synthesis of option          *)
(* descriptors from a nested configuration (build_dynamic_cli_options),    *)
(* the reconciliation of the residual argument vector                      *)
(* (parse_config_args) and the run command with its scoped resource        *)
(* staging (RunApp.run, RunApp._copy_resources).                           *)
(*                                                                         *)
(* Python strings are sequences of one-character strings, so that          *)
(* startswith, lstrip, split and replace are computed, not assumed.        *)
(* Python values are records [ty, val, items]: ty is the runtime type,     *)
(* val the text of a scalar (decimal digits of an int, the characters of   *)
(* a str, True/False of a bool), items the ordered entries of a dict.      *)
(***************************************************************************)
EXTENDS Integers, Sequences, FiniteSets, TLC

(***************************************************************************)
(* Bounds of the model.                                                    *)
(***************************************************************************)
\* longest residual argument vector (ctx.args) explored by SpecParse
MaxArgs == 3
\* most top-level keys of a configuration tree explored by SpecBuild
MaxKeys == 2

(***************************************************************************)
(* Python str operations on sequences of characters.                       *)
(***************************************************************************)
\* s.startswith(p)
StartsWith(s, p) ==
    /\ Len(s) >= Len(p)
    /\ SubSeq(s, 1, Len(p)) = p

RECURSIVE LStrip(_, _)
\* s.lstrip(c) for a one-character set c
LStrip(s, c) ==
    IF s # <<>> /\ Head(s) = c THEN LStrip(Tail(s), c) ELSE s

\* c in s, for a character c
Contains(s, c) ==
    \E i \in 1..Len(s) : s[i] = c

\* s.replace(a, b) for characters a and b
ReplaceChar(s, a, b) ==
    [i \in 1..Len(s) |-> IF s[i] = a THEN b ELSE s[i]]

RECURSIVE Replace(_, _, _)
\* s.replace(old, new) for a non-empty old: leftmost non-overlapping matches
Replace(s, old, new) ==
    IF s = <<>> THEN <<>>
    ELSE IF StartsWith(s, old)
         THEN new \o Replace(SubSeq(s, Len(old) + 1, Len(s)), old, new)
         ELSE <<Head(s)>> \o Replace(Tail(s), old, new)

RECURSIVE SplitFrom(_, _, _)
\* the segments of s after the segment cur has been read
SplitFrom(s, c, cur) ==
    IF s = <<>> THEN <<cur>>
    ELSE IF Head(s) = c THEN <<cur>> \o SplitFrom(Tail(s), c, <<>>)
         ELSE SplitFrom(Tail(s), c, Append(cur, Head(s)))

\* s.split(c)
Split(s, c) ==
    SplitFrom(s, c, <<>>)

(***************************************************************************)
(* Python values.                                                          *)
(***************************************************************************)
PyInt(digits) ==
    [ty |-> "int", val |-> digits, items |-> <<>>]

PyStr(chars) ==
    [ty |-> "str", val |-> chars, items |-> <<>>]

PyBool(b) ==
    [ty |-> "bool", val |-> IF b THEN <<"T", "r", "u", "e">>
                                  ELSE <<"F", "a", "l", "s", "e">>,
     items |-> <<>>]

PyPath(chars) ==
    [ty |-> "Path", val |-> chars, items |-> <<>>]

\* a dict with its entries [k, v] in insertion order
PyDict(entries) ==
    [ty |-> "dict", val |-> <<>>, items |-> entries]

\* the number a bool or an int compares as
NumText(x) ==
    IF x.ty = "bool"
    THEN (IF x.val = <<"T", "r", "u", "e">> THEN <<"1">> ELSE <<"0">>)
    ELSE x.val

\* a == b: numbers by value, everything else by type and content; a str never
\* equals an int
PyEq(a, b) ==
    IF a.ty \in {"int", "bool"} /\ b.ty \in {"int", "bool"}
    THEN NumText(a) = NumText(b)
    ELSE a = b

\* type(x).__name__
TypeName(x) ==
    CASE x.ty = "int" -> <<"i", "n", "t">>
      [] x.ty = "str" -> <<"s", "t", "r">>
      [] x.ty = "bool" -> <<"b", "o", "o", "l">>
      [] x.ty = "dict" -> <<"d", "i", "c", "t">>
      [] OTHER -> <<"P", "o", "s", "i", "x", "P", "a", "t", "h">>

\* d[k] = v on the entries of a dict: an existing key keeps its place
DictSet(entries, k, v) ==
    IF \E i \in 1..Len(entries) : entries[i].k = k
    THEN [i \in 1..Len(entries) |->
            IF entries[i].k = k THEN [k |-> k, v |-> v] ELSE entries[i]]
    ELSE Append(entries, [k |-> k, v |-> v])

\* d.get(k, default) on the entries of a dict
DictGet(entries, k, default) ==
    IF \E i \in 1..Len(entries) : entries[i].k = k
    THEN entries[CHOOSE i \in 1..Len(entries) : entries[i].k = k].v
    ELSE default

RECURSIVE DictUpdate(_, _)
\* d.update(other) on entries
DictUpdate(entries, other) ==
    IF other = <<>> THEN entries
    ELSE DictUpdate(DictSet(entries, Head(other).k, Head(other).v), Tail(other))

RECURSIVE ReprEntries(_)
RECURSIVE Repr(_)
\* repr(x): a str is quoted, a dict is written with its entries
Repr(x) ==
    CASE x.ty = "str" -> <<"'">> \o x.val \o <<"'">>
      [] x.ty = "dict" -> <<"{">> \o ReprEntries(x.items) \o <<"}">>
      [] x.ty = "Path" -> <<"P", "(", "'">> \o x.val \o <<"'", ")">>
      [] OTHER -> x.val

ReprEntries(entries) ==
    IF entries = <<>> THEN <<>>
    ELSE <<"'">> \o Head(entries).k \o <<"'", ":", " ">> \o Repr(Head(entries).v)
         \o (IF Len(entries) > 1 THEN <<",", " ">> ELSE <<>>)
         \o ReprEntries(Tail(entries))

\* str(x), what an f-string writes
Str(x) ==
    IF x.ty \in {"str", "Path"} THEN x.val ELSE Repr(x)

(***************************************************************************)
(* main.py: the flatten/unflatten codec and serialise.                     *)
(***************************************************************************)
RECURSIVE flatten_items(_, _)
\* the (flat key, leaf) entries of the dict entries below the path prefix pre
flatten_items(entries, pre) ==
    IF entries = <<>> THEN <<>>
    ELSE LET e == Head(entries)
             new_key == IF pre = <<>> THEN e.k ELSE pre \o <<":">> \o e.k
             here == IF e.v.ty = "dict"
                     THEN flatten_items(e.v.items, new_key)
                     ELSE <<[k |-> new_key, v |-> e.v]>>
         IN  here \o flatten_items(Tail(entries), pre)

\* flatten(d): the flat mapping of a nested dict, as entries in traversal order
flatten(d) ==
    DictUpdate(<<>>, flatten_items(d.items, <<>>))

\* no nesting: one entry under the first part of the path
NestParts_Flat(parts, value) ==
    PyDict(<<[k |-> parts[1], v |-> value]>>)

RECURSIVE NestParts(_, _)
\* the chain of dicts for the path parts with value at the leaf
NestParts(parts, value) ==
    IF Len(parts) = 1 THEN PyDict(<<[k |-> parts[1], v |-> value]>>)
    ELSE PyDict(<<[k |-> Head(parts), v |-> NestParts(Tail(parts), value)]>>)


\* the key is not split: one entry under the whole flat key
convert_key_unsplit(key, value) ==
    PyDict(<<[k |-> key, v |-> value]>>)

\* convert_key_to_samkemake_format(key, value)
convert_key_to_samkemake_format(key, value) ==
    NestParts(Split(key, ":"), value)

RECURSIVE serialise(_)
RECURSIVE SerialiseEntries(_)
\* serialise(d): a Path becomes its str, the values of a dict are serialised
serialise(d) ==
    CASE d.ty = "Path" -> PyStr(d.val)
      [] d.ty = "dict" -> PyDict(SerialiseEntries(d.items))
      [] OTHER -> d

SerialiseEntries(entries) ==
    IF entries = <<>> THEN <<>>
    ELSE <<[k |-> Head(entries).k, v |-> serialise(Head(entries).v)]>>
         \o SerialiseEntries(Tail(entries))

(***************************************************************************)
(* main.py: build_dynamic_cli_options.                                     *)
(***************************************************************************)
\* the name is not sanitised: hyphens stay
Descriptor_KeepHyphen(op, default, flat_snk_annotations) ==
    [name |-> DictGet(flat_snk_annotations, op \o <<":", "n", "a", "m", "e">>,
                      PyStr(ReplaceChar(op, ":", "_"))).val,
     original_key |-> op,
     default |-> default,
     help |-> DictGet(flat_snk_annotations, op \o <<":", "h", "e", "l", "p">>,
                      PyStr(<<>>)).val,
     type |-> DictGet(flat_snk_annotations, op \o <<":", "t", "y", "p", "e">>,
                      PyStr(TypeName(default))).val,
     required |-> DictGet(flat_snk_annotations,
                          op \o <<":", "r", "e", "q", "u", "i", "r", "e", "d">>,
                          PyBool(FALSE))]

\* the descriptor of the flat key op with default value default, merged with
\* the flattened annotations (main.py lines 84-100)
Descriptor(op, default, flat_snk_annotations) ==
    LET name == DictGet(flat_snk_annotations, op \o <<":", "n", "a", "m", "e">>,
                        PyStr(ReplaceChar(op, ":", "_")))
        help == DictGet(flat_snk_annotations, op \o <<":", "h", "e", "l", "p">>,
                        PyStr(<<>>))
        param_type == DictGet(flat_snk_annotations, op \o <<":", "t", "y", "p", "e">>,
                              PyStr(TypeName(default)))
        required == DictGet(flat_snk_annotations,
                            op \o <<":", "r", "e", "q", "u", "i", "r", "e", "d">>,
                            PyBool(FALSE))
    IN  [name |-> ReplaceChar(name.val, "-", "_"),
         original_key |-> op,
         default |-> default,
         help |-> help.val,
         type |-> param_type.val,
         required |-> required]

\* build_dynamic_cli_options(snakemake_config, snk_config): one descriptor per
\* flat key, in flatten order; nothing compares the names
build_dynamic_cli_options(snakemake_config_, annotations_) ==
    LET flat_config == flatten(snakemake_config_)
        flat_snk_annotations == flatten(annotations_)
    IN  [i \in 1..Len(flat_config) |->
            Descriptor(flat_config[i].k, flat_config[i].v, flat_snk_annotations)]

(***************************************************************************)
(* main.py: parse_config_args.                                             *)
(***************************************************************************)
\* names = [op['name'] for op in options]
OptionNames(options_) ==
    {options_[i].name : i \in 1..Len(options_)}

\* next(op for op in options if op['name'] == name): the first match
FirstOption(options_, name) ==
    options_[CHOOSE i \in 1..Len(options_) :
                /\ options_[i].name = name
                /\ \A j \in 1..(i - 1) : options_[j].name # name]

\* the loop state before the first token: no pending flag (None is <<>>), with
\* the role the loop gave each token and the token each override came from
ParseStart ==
    [flag |-> <<>>, parsed |-> <<>>, config |-> <<>>, raised |-> FALSE,
     roles |-> <<>>, origin |-> <<>>]


\* the pending-flag branch without the comparison with the default: every
\* value is forwarded
ParseValue_NoSkip(st, arg, options_) ==
    LET name == LStrip(st.flag, "-")
        op == FirstOption(options_, name)
        nested == Contains(op.original_key, ":")
        samkemake_format_config ==
            convert_key_to_samkemake_format(op.original_key, arg)
        key == IF nested THEN samkemake_format_config.items[1].k ELSE name
        value == IF nested THEN samkemake_format_config.items[1].v ELSE arg
    IN  [st EXCEPT !.flag = <<>>,
                   !.config = Append(@, PyDict(<<[k |-> key,
                                                  v |-> serialise(value)]>>)),
                   !.roles = Append(@, "value"),
                   !.origin = Append(@, Len(st.roles))]

\* the pending-flag branch of the loop body (main.py lines 57-71)
ParseValue(st, arg, options_) ==
    LET name == LStrip(st.flag, "-")
        op == FirstOption(options_, name)
        nested == Contains(op.original_key, ":")
        samkemake_format_config ==
            convert_key_to_samkemake_format(op.original_key, arg)
        key == IF nested THEN samkemake_format_config.items[1].k ELSE name
        value == IF nested THEN samkemake_format_config.items[1].v ELSE arg
    IN  IF PyEq(op.default, serialise(arg))
        THEN [st EXCEPT !.flag = <<>>, !.roles = Append(@, "value")]
        ELSE [st EXCEPT !.flag = <<>>,
                        !.config = Append(@, PyDict(<<[k |-> key,
                                                       v |-> serialise(value)]>>)),
                        !.roles = Append(@, "value"),
                        !.origin = Append(@, Len(st.roles))]


\* the loop body without the continue of line 74: a matching flag is kept
\* pending and also falls through to the passthrough list
ParseArg_FlagFallsThrough(st, arg, options_) ==
    IF st.raised THEN st
    ELSE IF st.flag # <<>> THEN ParseValue(st, arg, options_)
    ELSE IF arg.ty # "str" THEN [st EXCEPT !.raised = TRUE]
    ELSE IF StartsWith(arg.val, <<"-">>)
            /\ LStrip(arg.val, "-") \in OptionNames(options_)
         THEN [st EXCEPT !.flag = arg.val, !.parsed = Append(@, arg),
                         !.roles = Append(@, "flag")]
         ELSE [st EXCEPT !.parsed = Append(@, arg), !.roles = Append(@, "pass")]

\* the loop body with a pending flag that takes no token beginning with the
\* flag prefix as its value: the flag is dropped and the token handled anew
ParseArg_FlagNotValue(st, arg, options_) ==
    IF st.raised THEN st
    ELSE IF st.flag # <<>> /\ ~(arg.ty = "str" /\ StartsWith(arg.val, <<"-">>))
         THEN ParseValue(st, arg, options_)
    ELSE IF arg.ty # "str" THEN [st EXCEPT !.raised = TRUE]
    ELSE IF StartsWith(arg.val, <<"-">>)
            /\ LStrip(arg.val, "-") \in OptionNames(options_)
         THEN [st EXCEPT !.flag = arg.val, !.roles = Append(st.roles, "flag")]
         ELSE [st EXCEPT !.flag = <<>>, !.parsed = Append(st.parsed, arg),
                         !.roles = Append(st.roles, "pass")]

\* one iteration of the loop body (main.py lines 56-75); arg.startswith on a
\* value that is no str raises AttributeError
ParseArg(st, arg, options_) ==
    IF st.raised THEN st
    ELSE IF st.flag # <<>> THEN ParseValue(st, arg, options_)
    ELSE IF arg.ty # "str" THEN [st EXCEPT !.raised = TRUE]
    ELSE IF StartsWith(arg.val, <<"-">>)
            /\ LStrip(arg.val, "-") \in OptionNames(options_)
         THEN [st EXCEPT !.flag = arg.val, !.roles = Append(@, "flag")]
         ELSE [st EXCEPT !.parsed = Append(@, arg), !.roles = Append(@, "pass")]

RECURSIVE ParseLoop_FlushPending(_, _, _)
\* the loop with a flag left pending at the end put in the passthrough list
ParseLoop_FlushPending(st, args_, options_) ==
    IF args_ = <<>>
    THEN (IF st.flag # <<>> /\ ~st.raised
          THEN [st EXCEPT !.parsed = Append(st.parsed, PyStr(st.flag))]
          ELSE st)
    ELSE ParseLoop_FlushPending(ParseArg(st, Head(args_), options_),
                                Tail(args_), options_)

RECURSIVE ParseLoop(_, _, _)
\* the for loop over args from the loop state st
ParseLoop(st, args_, options_) ==
    IF args_ = <<>> THEN st
    ELSE ParseLoop(ParseArg(st, Head(args_), options_), Tail(args_), options_)

\* parse_config_args(args, options): parsed and config, with the loop's record
parse_config_args(args_, options_) ==
    ParseLoop(ParseStart, args_, options_)

(***************************************************************************)
(* State.                                                                  *)
(***************************************************************************)
VARIABLES
    pc,                 \* where the program is
    snakemake_config,   \* CLI.snakemake_config: the nested configuration
    annotations,        \* SnkConfig.annotations
    flat_config,        \* the entries of flatten(snakemake_config) not yet unflattened
    merged,             \* the unflattened entries merged so far
    options,            \* CLI.options / RunApp.options: the descriptors
    snakefile,          \* CLI.snakefile: the resolved path, <<>> before
    ctx_args,           \* ctx.args: the residual argument vector
    target,             \* the target argument, <<>> for None
    scan,               \* what parse_config_args returned
    targets_and_or_snakemake, \* the passthrough tokens after run.py line 238
    args,               \* the argument list built for the engine
    flags,              \* the other options of the run command
    keep_resources,     \* --keep-resources
    keep_snakemake,     \* --keep-snakemake, as run.py line 252 may reset it
    keep_snakemake_option, \* --keep-snakemake as the user gave it
    dag,                \* --dag given
    resource,           \* the --resource paths
    snk_resources,      \* SnkConfig.resources
    pipeline,           \* the paths that exist under the pipeline directory
    workdir,            \* the names that exist in the working directory
    workdir0,           \* the working directory when the command started
    i,                  \* _copy_resources: index of the next resource
    yielded,            \* _copy_resources: the with body was entered
    copied_resources,   \* _copy_resources: the destinations it created
    skipped,            \* the destinations found existing and skipped
    removed,            \* the destinations the finally block removed
    exc,                \* the exception in flight, kind "none" when none
    early_return,       \* the with body returned (--dag)
    engine_calls,       \* the argument lists snakemake.main was called with
    engine_status,      \* the status of the call at run.py line 266, -1 before
    result              \* how the command ended, kind "running" before

vars ==
    <<pc, snakemake_config, annotations, flat_config, merged, options, snakefile, ctx_args, target,
      scan, targets_and_or_snakemake, args, flags, keep_resources,
      keep_snakemake, keep_snakemake_option, dag, resource, snk_resources,
      pipeline, workdir, workdir0,
      i, yielded, copied_resources, skipped, removed, exc, early_return,
      engine_calls, engine_status, result>>

configVars ==
    <<snakemake_config, annotations, flat_config, merged>>

parseVars ==
    <<ctx_args, target, scan, targets_and_or_snakemake, args>>

inputVars ==
    <<flags, keep_resources, keep_snakemake_option, dag, resource, workdir0>>

stagingVars ==
    <<i, yielded, copied_resources, skipped, removed>>

NoException ==
    [kind |-> "none", code |-> 0]

Running ==
    [kind |-> "running", code |-> 0]

(***************************************************************************)
(* Inputs.                                                                 *)
(***************************************************************************)
\* keys of a configuration tree: none holds the delimiter
BuildKeys ==
    {<<"a">>, <<"a", "_", "b">>, <<"a", "-", "b">>, <<"t", "e", "x", "t">>}

\* what a top-level key of a configuration tree may hold
Children ==
    {PyInt(<<"1">>), PyStr(<<"h", "i">>),
     PyDict(<<[k |-> <<"b">>, v |-> PyInt(<<"1">>)]>>),
     PyDict(<<[k |-> <<"b">>, v |-> PyDict(<<[k |-> <<"c">>, v |-> PyInt(<<"2">>)]>>)]>>)}

\* the configuration trees with at most n top-level keys, keys in any order
ConfigTrees(n) ==
    UNION {
        {PyDict([j \in 1..m |-> [k |-> ks[j], v |-> vs[j]]]) :
            ks \in {f \in [1..m -> BuildKeys] :
                        \A x, y \in 1..m : x # y => f[x] # f[y]},
            vs \in [1..m -> Children]} :
        m \in 0..n}

\* annotation mappings: none, every field of a:b, and a name for text that
\* is the name a:b gets
AnnotationCases ==
    {PyDict(<<>>),
     PyDict(<<[k |-> <<"a">>, v |-> PyDict(<<[k |-> <<"b">>, v |-> PyDict(<<
        [k |-> <<"n", "a", "m", "e">>, v |-> PyStr(<<"x", "-", "y">>)],
        [k |-> <<"h", "e", "l", "p">>, v |-> PyStr(<<"h">>)],
        [k |-> <<"t", "y", "p", "e">>, v |-> PyStr(<<"s", "t", "r">>)],
        [k |-> <<"r", "e", "q", "u", "i", "r", "e", "d">>, v |-> PyBool(TRUE)]>>)]>>)]>>),
     PyDict(<<[k |-> <<"t", "e", "x", "t">>, v |-> PyDict(<<
        [k |-> <<"n", "a", "m", "e">>, v |-> PyStr(<<"a", "_", "b">>)]>>)]>>)}

\* the configurations the argument vectors are parsed against: the spec's
\* a:b with a str option, a three-level key with a hyphenated key, and two
\* keys with one name
ParseConfigs ==
    {PyDict(<<[k |-> <<"a">>, v |-> PyDict(<<[k |-> <<"b">>, v |-> PyInt(<<"1">>)]>>)],
              [k |-> <<"t", "e", "x", "t">>, v |-> PyStr(<<"h", "i">>)]>>),
     PyDict(<<[k |-> <<"a">>, v |-> PyDict(<<[k |-> <<"b">>, v |-> PyDict(<<
                  [k |-> <<"c">>, v |-> PyInt(<<"1">>)]>>)]>>)],
              [k |-> <<"a", "-", "b">>, v |-> PyInt(<<"2">>)]>>),
     PyDict(<<[k |-> <<"a">>, v |-> PyDict(<<[k |-> <<"b">>, v |-> PyInt(<<"1">>)]>>)],
              [k |-> <<"a", "_", "b">>, v |-> PyInt(<<"2">>)]>>)}

\* the flag token of every descriptor
FlagTokens(options_) ==
    {PyStr(<<"-", "-">> \o options_[j].name) : j \in 1..Len(options_)}

\* values, a target, an engine flag and a --snake- flag
PlainTokens ==
    {PyInt(<<"1">>), PyInt(<<"2">>), PyStr(<<"1">>), PyStr(<<"h", "i">>), PyStr(<<"a", "l", "l">>),
     PyStr(<<"-", "-", "d", "r", "y", "-", "r", "u", "n">>), PyStr(<<"-", "-", "s", "n", "a", "k", "e", "-", "n">>)}

\* the argument vectors of at most n tokens over the set tokens
ArgVectors(tokens, n) ==
    UNION {[1..m -> tokens] : m \in 0..n}

\* the run command is not running
RunIdle ==
    /\ flat_config = <<>>
    /\ merged = PyDict(<<>>)
    /\ snakefile = <<>>
    /\ target = <<>>
    /\ targets_and_or_snakemake = <<>>
    /\ args = <<>>
    /\ flags = [verbose |-> FALSE]
    /\ keep_resources = FALSE
    /\ keep_snakemake = FALSE
    /\ keep_snakemake_option = FALSE
    /\ dag = FALSE
    /\ resource = <<>>
    /\ snk_resources = <<>>
    /\ pipeline = {}
    /\ workdir = {}
    /\ workdir0 = {}
    /\ i = 0
    /\ yielded = FALSE
    /\ copied_resources = <<>>
    /\ skipped = {}
    /\ removed = {}
    /\ exc = NoException
    /\ early_return = FALSE
    /\ engine_calls = <<>>
    /\ engine_status = -1
    /\ result = Running

runVars ==
    <<snakefile, target, targets_and_or_snakemake, args, flags, keep_resources,
      keep_snakemake, keep_snakemake_option, dag, resource, snk_resources,
      pipeline, workdir, workdir0,
      i, yielded, copied_resources, skipped, removed, exc, early_return,
      engine_calls, engine_status, result>>

(***************************************************************************)
(* SpecBuild: build_dynamic_cli_options on every configuration tree and    *)
(* annotation mapping of the bounds.                                       *)
(***************************************************************************)
InitBuild ==
    /\ pc = "build"
    /\ snakemake_config \in ConfigTrees(MaxKeys)
    /\ annotations \in AnnotationCases
    /\ options = <<>>
    /\ ctx_args = <<>>
    /\ scan = ParseStart
    /\ RunIdle

\* CLI.__init__, main.py line 111
BuildOptions ==
    /\ pc = "build"
    /\ options' = build_dynamic_cli_options(snakemake_config, annotations)
    /\ pc' = "built"
    /\ UNCHANGED <<configVars, ctx_args, scan, runVars>>

NextBuild ==
    BuildOptions

SpecBuild ==
    InitBuild /\ [][NextBuild]_vars

(***************************************************************************)
(* SpecParse: parse_config_args on every argument vector of the bounds.    *)
(***************************************************************************)
InitParse ==
    /\ pc = "parse"
    /\ snakemake_config \in ParseConfigs
    /\ annotations = PyDict(<<>>)
    /\ options = build_dynamic_cli_options(snakemake_config, annotations)
    /\ ctx_args \in ArgVectors(FlagTokens(options) \cup PlainTokens, MaxArgs)
    /\ scan = ParseStart
    /\ RunIdle

\* the call of parse_config_args, run.py line 235
Parse ==
    /\ pc = "parse"
    /\ scan' = parse_config_args(ctx_args, options)
    /\ pc' = IF scan'.raised THEN "raised" ELSE "parsed"
    /\ UNCHANGED <<configVars, options, ctx_args, runVars>>

NextParse ==
    Parse

SpecParse ==
    InitParse /\ [][NextParse]_vars

(***************************************************************************)
(* SpecCodec: flatten, then convert_key_to_samkemake_format on every flat  *)
(* entry, the results merged, on every configuration tree of the bounds.   *)
(***************************************************************************)
\* the leaves of the trees
CodecLeaves ==
    {PyInt(<<"1">>), PyStr(<<"h", "i">>)}

\* the mappings with at most n keys out of keys, in any order, over children
DictsOver(keys, children, n) ==
    UNION {
        {PyDict([j \in 1..m |-> [k |-> ks[j], v |-> vs[j]]]) :
            ks \in {f \in [1..m -> keys] :
                        \A x, y \in 1..m : x # y => f[x] # f[y]},
            vs \in [1..m -> children]} :
        m \in 0..n}

\* the configuration trees of up to three levels, empty mappings included
CodecTrees ==
    LET level3 == DictsOver({<<"c">>}, CodecLeaves, MaxKeys)
        level2 == DictsOver({<<"b">>, <<"c">>}, CodecLeaves \cup level3, MaxKeys)
    IN  DictsOver({<<"a">>, <<"b">>}, CodecLeaves \cup level2, MaxKeys)

RECURSIVE Merge(_, _)
\* the entries of the mapping a with the entries other merged in: where both
\* hold a mapping under a key the two are merged, otherwise other's value is
\* set
Merge(a, other) ==
    IF other = <<>> THEN a
    ELSE LET e == Head(other)
             old == DictGet(a, e.k, PyInt(<<>>))
             new == IF old.ty = "dict" /\ e.v.ty = "dict"
                    THEN PyDict(Merge(old.items, e.v.items))
                    ELSE e.v
         IN  Merge(DictSet(a, e.k, new), Tail(other))

InitCodec ==
    /\ pc = "tree"
    /\ snakemake_config \in CodecTrees
    /\ annotations = PyDict(<<>>)
    /\ options = <<>>
    /\ ctx_args = <<>>
    /\ scan = ParseStart
    /\ RunIdle

\* flat_config = flatten(snakemake_config), main.py line 80
Flatten ==
    /\ pc = "tree"
    /\ flat_config' = flatten(snakemake_config)
    /\ pc' = "flat"
    /\ UNCHANGED <<snakemake_config, annotations, merged, options, ctx_args,
                   scan, runVars>>

\* convert_key_to_samkemake_format on the next flat entry, merged in
UnflattenKey ==
    /\ pc = "flat"
    /\ flat_config # <<>>
    /\ LET e == Head(flat_config)
       IN  merged' = PyDict(Merge(merged.items,
                        convert_key_to_samkemake_format(e.k, e.v).items))
    /\ flat_config' = Tail(flat_config)
    /\ UNCHANGED <<pc, snakemake_config, annotations, options, ctx_args, scan,
                   runVars>>

\* every flat entry has been unflattened
UnflattenDone ==
    /\ pc = "flat"
    /\ flat_config = <<>>
    /\ pc' = "merged"
    /\ UNCHANGED <<configVars, options, ctx_args, scan, runVars>>

NextCodec ==
    \/ Flatten
    \/ UnflattenKey
    \/ UnflattenDone

SpecCodec ==
    InitCodec /\ [][NextCodec]_vars

(***************************************************************************)
(* The pipeline directory, the working directory and the engine.           *)
(***************************************************************************)
\* most resources SnkConfig.resources lists before the run
MaxResources == 2
\* largest exit status of the engine
MaxStatus == 2
\* longest residual argument vector explored by SpecArgs
MaxRunArgs == 2

\* snakemake.SNAKEFILE_CHOICES, in search order
SNAKEFILE_CHOICES ==
    <<<<"S", "n", "a", "k", "e", "f", "i", "l", "e">>, <<"s", "n", "a", "k", "e", "f", "i", "l", "e">>, <<"w", "o", "r", "k", "f", "l", "o", "w", "/", "S", "n", "a", "k", "e", "f", "i", "l", "e">>, <<"w", "o", "r", "k", "f", "l", "o", "w", "/", "s", "n", "a", "k", "e", "f", "i", "l", "e">>>>

PipelinePath ==
    <<"/", "p">>

CondaPrefixDir ==
    <<"/", "p", "/", ".", "c", "o", "n", "d", "a">>

SingularityPrefixDir ==
    <<"/", "p", "/", ".", "s", "i", "n", "g">>

DotSnakemake ==
    <<".", "s", "n", "a", "k", "e", "m", "a", "k", "e">>

ResourcesFolder ==
    <<"r", "e", "s", "o", "u", "r", "c", "e", "s">>

\* the resources a pipeline ships and the run may stage; two share a name
ResourcePaths ==
    {<<"d", "a", "t", "a", ".", "t", "x", "t">>, <<"d", "/", "d", "a", "t", "a", ".", "t", "x", "t">>, <<"r", "e", "f">>}

\* the --resource path no pipeline holds
MissingResource ==
    <<"g", "o", "n", "e", ".", "t", "x", "t">>

\* Path(p).name
PathName(p) ==
    LET parts == Split(p, "/") IN parts[Len(parts)]

\* the elements of a list
Range(s) ==
    {s[j] : j \in 1..Len(s)}

\* CLI._find_snakefile: the first candidate that exists, <<>> when it raises
_find_snakefile(pipeline_) ==
    IF \E j \in 1..Len(SNAKEFILE_CHOICES) : SNAKEFILE_CHOICES[j] \in pipeline_
    THEN SNAKEFILE_CHOICES[CHOOSE j \in 1..Len(SNAKEFILE_CHOICES) :
            /\ SNAKEFILE_CHOICES[j] \in pipeline_
            /\ \A h \in 1..(j - 1) : SNAKEFILE_CHOICES[h] \notin pipeline_]
    ELSE <<>>


\* the snakefile is taken to exist
SnakefileExists_Unchecked(snakefile_, pipeline_) ==
    TRUE

\* self.snakefile.exists(), run.py line 183
SnakefileExists(snakefile_, pipeline_) ==
    snakefile_ \in pipeline_

\* DynamicTyper.error(msg, exit): reports, and raises typer.Exit(1) when exit
error(exit_) ==
    IF exit_ THEN [kind |-> "Exit", code |-> 1] ELSE NoException

\* the default of error's exit parameter
ErrorExitDefault ==
    TRUE

\* SnkConfig.add_resources raises FileNotFoundError: a path does not exist
AddResourcesRaises(requested, pipeline_) ==
    \E j \in 1..Len(requested) : requested[j] \notin pipeline_

RECURSIVE add_resources(_, _)
\* SnkConfig.add_resources: each path is appended unless already present
add_resources(resources_, requested) ==
    IF requested = <<>> THEN resources_
    ELSE add_resources(IF Head(requested) \in Range(resources_) THEN resources_
                       ELSE Append(resources_, Head(requested)),
                       Tail(requested))


\* the except clause swallows the error
AddResourcesHandler_Pass ==
    NoException

\* the except clause of run.py lines 255-256: self.error(str(e))
AddResourcesHandler ==
    error(ErrorExitDefault)

(***************************************************************************)
(* run.py: the argument list of the engine.                                *)
(***************************************************************************)
\* the options of the run command that only add engine flags
RunOptionCases ==
    {[verbose |-> FALSE, force |-> FALSE, dry |-> FALSE, lock |-> FALSE,
      cores |-> <<>>, configfile |-> <<>>, discovered |-> <<>>,
      profile |-> <<>>, profile_dir |-> <<>>, conda_found |-> FALSE,
      require_conda |-> FALSE, mamba_found |-> FALSE],
     [verbose |-> TRUE, force |-> TRUE, dry |-> TRUE, lock |-> TRUE,
      cores |-> <<"4">>, configfile |-> <<"c", ".", "y", "a", "m", "l">>, discovered |-> <<"/", "p", "/", "c", "o", "n", "f", "i", "g", ".", "y", "a", "m", "l">>,
      profile |-> <<"s", "l", "u", "r", "m">>, profile_dir |-> <<"/", "p", "/", "p", "r", "o", "f", "i", "l", "e", "s", "/", "s", "l", "u", "r", "m">>,
      conda_found |-> TRUE, require_conda |-> FALSE, mamba_found |-> TRUE],
     [verbose |-> FALSE, force |-> TRUE, dry |-> FALSE, lock |-> FALSE,
      cores |-> <<>>, configfile |-> <<>>, discovered |-> <<"/", "p", "/", "c", "o", "n", "f", "i", "g", ".", "y", "a", "m", "l">>,
      profile |-> <<"x">>, profile_dir |-> <<>>, conda_found |-> FALSE,
      require_conda |-> TRUE, mamba_found |-> FALSE]}

\* run.py lines 169-221: the fixed flags
FixedArgs(flags_, ctx_args_, snakefile_) ==
    LET cores == IF flags_.cores = <<>> THEN <<"a", "l", "l">> ELSE flags_.cores
        configfile == IF flags_.configfile = <<>> THEN flags_.discovered
                      ELSE flags_.configfile
        profile == IF flags_.profile_dir # <<>> THEN flags_.profile_dir
                   ELSE flags_.profile
    IN  <<<<"-", "-", "r", "e", "r", "u", "n", "-", "i", "n", "c", "o", "m", "p", "l", "e", "t", "e">>, <<"-", "-", "c", "o", "r", "e", "s", "=">> \o cores>>
        \o (IF SingularityPrefixDir # <<>>
               /\ PyStr(<<"-", "-", "u", "s", "e", "-", "s", "i", "n", "g", "u", "l", "a", "r", "i", "t", "y">>) \in Range(ctx_args_)
            THEN <<<<"-", "-", "s", "i", "n", "g", "u", "l", "a", "r", "i", "t", "y", "-", "p", "r", "e", "f", "i", "x", "=">> \o SingularityPrefixDir>> ELSE <<>>)
        \o <<<<"-", "-", "s", "n", "a", "k", "e", "f", "i", "l", "e", "=">> \o PipelinePath \o <<"/">> \o snakefile_>>
        \o (IF configfile # <<>> THEN <<<<"-", "-", "c", "o", "n", "f", "i", "g", "f", "i", "l", "e", "=">> \o configfile>> ELSE <<>>)
        \o (IF flags_.profile # <<>> THEN <<<<"-", "-", "p", "r", "o", "f", "i", "l", "e", "=">> \o profile>> ELSE <<>>)
        \o (IF flags_.conda_found \/ flags_.require_conda
            THEN <<<<"-", "-", "u", "s", "e", "-", "c", "o", "n", "d", "a">>, <<"-", "-", "c", "o", "n", "d", "a", "-", "p", "r", "e", "f", "i", "x", "=">> \o CondaPrefixDir,
                   IF flags_.mamba_found THEN <<"-", "-", "c", "o", "n", "d", "a", "-", "f", "r", "o", "n", "t", "e", "n", "d", "=", "m", "a", "m", "b", "a">>
                   ELSE <<"-", "-", "c", "o", "n", "d", "a", "-", "f", "r", "o", "n", "t", "e", "n", "d", "=", "c", "o", "n", "d", "a">>>>
            ELSE <<>>)

\* run.py lines 223-233: --verbose goes first, the switches are appended
SwitchArgs(flags_, fixed) ==
    (IF flags_.verbose THEN <<<<"-", "-", "v", "e", "r", "b", "o", "s", "e">>>> ELSE <<>>)
    \o fixed
    \o (IF flags_.force THEN <<<<"-", "-", "f", "o", "r", "c", "e", "a", "l", "l">>>> ELSE <<>>)
    \o (IF flags_.dry THEN <<<<"-", "-", "d", "r", "y", "r", "u", "n">>>> ELSE <<>>)
    \o (IF ~flags_.lock THEN <<<<"-", "-", "n", "o", "l", "o", "c", "k">>>> ELSE <<>>)

\* run.py lines 238-240: t.replace("--snake-", "-") on every passthrough token
SnakeReplace(parsed_) ==
    [j \in 1..Len(parsed_) |-> Replace(parsed_[j].val, <<"-", "-", "s", "n", "a", "k", "e", "-">>, <<"-">>)]

RECURSIVE EntryStrings(_, _)
\* f"{key}={value}" for every entry of one override dict
EntryStrings(key_values, done) ==
    IF key_values = <<>> THEN done
    ELSE EntryStrings(Tail(key_values),
                      Append(done, Head(key_values).k \o <<"=">>
                                   \o Str(Head(key_values).v)))

RECURSIVE Configs(_, _)
\* run.py lines 242-245: the key=value strings of the override list
Configs(config_dict_list, configs) ==
    IF config_dict_list = <<>> THEN configs
    ELSE Configs(Tail(config_dict_list),
                 EntryStrings(Head(config_dict_list).items, configs))


\* the --config token is always appended, as CLI.run of main.py does
ConfigBlock_Always(configs) ==
    <<<<"-", "-", "c", "o", "n", "f", "i", "g">>>> \o configs

\* run.py lines 247-248: the --config block, only if there are overrides
ConfigBlock(configs) ==
    IF configs # <<>> THEN <<<<"-", "-", "c", "o", "n", "f", "i", "g">>>> \o configs ELSE <<>>

(***************************************************************************)
(* The run command: CLI.__init__, RunApp.run and RunApp._copy_resources.   *)
(***************************************************************************)
\* CLI.__init__, main.py lines 111-112: the descriptors, then the snakefile
Construct ==
    /\ pc = "construct"
    /\ options' = build_dynamic_cli_options(snakemake_config, annotations)
    /\ snakefile' = _find_snakefile(pipeline)
    /\ IF snakefile' = <<>>
       THEN /\ result' = [kind |-> "FileNotFoundError", code |-> 1]
            /\ pc' = "done"
       ELSE /\ result' = result
            /\ pc' = "ready"
    /\ UNCHANGED <<configVars, parseVars, inputVars, keep_snakemake,
                   snk_resources, pipeline, workdir, stagingVars, exc,
                   early_return, engine_calls, engine_status>>

\* the snakefile disappears between the construction and the run command
SnakefileRemoved ==
    /\ pc = "ready"
    /\ snakefile \in pipeline
    /\ pipeline' = pipeline \ {snakefile}
    /\ UNCHANGED <<pc, configVars, options, snakefile, parseVars, inputVars,
                   keep_snakemake, snk_resources, workdir, stagingVars, exc,
                   early_return, engine_calls, engine_status, result>>

\* RunApp.run, run.py lines 168-250: the target joins ctx.args, the snakefile
\* is checked, the arguments are reconciled and the engine's list is built
RunAssemble ==
    /\ pc = "ready"
    /\ ctx_args' = IF target # <<>> THEN Append(ctx_args, PyStr(target))
                   ELSE ctx_args
    /\ IF ~SnakefileExists(snakefile, pipeline)
       THEN /\ result' = [kind |-> "ValueError", code |-> 1]
            /\ pc' = "done"
            /\ UNCHANGED <<scan, targets_and_or_snakemake, args>>
       ELSE LET fixed == SwitchArgs(flags, FixedArgs(flags, ctx_args', snakefile))
                sc == parse_config_args(ctx_args', options)
            IN  IF sc.raised
                THEN /\ result' = [kind |-> "AttributeError", code |-> 1]
                     /\ pc' = "done"
                     /\ scan' = sc
                     /\ args' = fixed
                     /\ UNCHANGED targets_and_or_snakemake
                ELSE /\ scan' = sc
                     /\ targets_and_or_snakemake' = SnakeReplace(sc.parsed)
                     /\ args' = fixed \o targets_and_or_snakemake'
                                \o ConfigBlock(Configs(sc.config, <<>>))
                     /\ pc' = "add_resources"
                     /\ result' = result
    /\ UNCHANGED <<configVars, options, snakefile, target, inputVars,
                   keep_snakemake, snk_resources, pipeline, workdir,
                   stagingVars, exc, early_return, engine_calls, engine_status>>


\* keep_snakemake is left as the user gave it
KeepSnakemake_NoReset(keep, workdir_) ==
    keep

\* run.py lines 251-252: keep_snakemake becomes True when .snakemake exists
KeepSnakemake(keep, workdir_) ==
    keep \/ DotSnakemake \in workdir_

\* run.py lines 251-256: an existing .snakemake is kept, then add_resources
RunAddResources ==
    /\ pc = "add_resources"
    /\ keep_snakemake' = KeepSnakemake(keep_snakemake, workdir)
    /\ LET raised == AddResourcesRaises(resource, pipeline)
           e == IF raised THEN AddResourcesHandler ELSE NoException
       IN  IF e.kind # "none"
           THEN /\ result' = e
                /\ pc' = "done"
                /\ UNCHANGED snk_resources
           ELSE /\ snk_resources' = IF raised THEN snk_resources
                                    ELSE add_resources(snk_resources, resource)
                /\ pc' = "copy_enter"
                /\ result' = result
    /\ UNCHANGED <<configVars, options, snakefile, parseVars, inputVars,
                   pipeline, workdir, stagingVars, exc, early_return,
                   engine_calls, engine_status>>

\* _copy_resources, run.py lines 338 and 362-370: the resources folder of the
\* pipeline is put first in the list it was given, SnkConfig.resources itself
CopyEnter ==
    /\ pc = "copy_enter"
    /\ copied_resources' = <<>>
    /\ snk_resources' = IF ResourcesFolder \in pipeline
                        THEN <<ResourcesFolder>> \o snk_resources
                        ELSE snk_resources
    /\ i' = 1
    /\ pc' = "staging"
    /\ UNCHANGED <<configVars, options, snakefile, parseVars, inputVars,
                   keep_snakemake, pipeline, workdir, yielded, skipped, removed,
                   exc, early_return, engine_calls, engine_status, result>>


\* every destination is copied, existing or not
ShouldCopy_Always(destination, workdir_) ==
    TRUE

\* not destination.exists(), run.py line 374
ShouldCopy(destination, workdir_) ==
    destination \notin workdir_

\* one iteration of the staging loop, run.py lines 371-382: an existing
\* destination is skipped; a copy (or symlink) creates it and records it, or
\* raises, leaving nothing or an unrecorded partial destination
StageResource ==
    /\ pc = "staging"
    /\ i <= Len(snk_resources)
    /\ LET destination == PathName(snk_resources[i])
       IN  \/ /\ ~ShouldCopy(destination, workdir)
              /\ skipped' = skipped \cup {destination}
              /\ i' = i + 1
              /\ UNCHANGED <<pc, workdir, copied_resources, exc>>
           \/ /\ ShouldCopy(destination, workdir)
              /\ snk_resources[i] \in pipeline
              /\ workdir' = workdir \cup {destination}
              /\ copied_resources' = Append(copied_resources, destination)
              /\ i' = i + 1
              /\ UNCHANGED <<pc, skipped, exc>>
           \/ /\ ShouldCopy(destination, workdir)
              /\ \E partial \in BOOLEAN :
                    workdir' = IF partial THEN workdir \cup {destination}
                               ELSE workdir
              /\ exc' = [kind |-> "OSError", code |-> 1]
              /\ pc' = "cleanup"
              /\ UNCHANGED <<i, copied_resources, skipped>>
    /\ UNCHANGED <<configVars, options, snakefile, parseVars, inputVars,
                   keep_snakemake, snk_resources, pipeline, yielded, removed,
                   early_return, engine_calls, engine_status, result>>

\* the yield of run.py line 383: the with body starts
StageDone ==
    /\ pc = "staging"
    /\ i > Len(snk_resources)
    /\ yielded' = TRUE
    /\ pc' = "body"
    /\ UNCHANGED <<configVars, options, snakefile, parseVars, inputVars,
                   keep_snakemake, snk_resources, pipeline, workdir, i,
                   copied_resources, skipped, removed, exc, early_return,
                   engine_calls, engine_status, result>>

\* run.py lines 264-270: the engine ends with SystemExit(status), which is
\* raised again when nonzero, or with another exception; it may leave a
\* .snakemake directory
RunEngine ==
    /\ pc = "body"
    /\ ~dag
    /\ engine_calls' = Append(engine_calls, args)
    /\ \E made \in BOOLEAN :
          workdir' = IF made THEN workdir \cup {DotSnakemake} ELSE workdir
    /\ \/ \E status \in 0..MaxStatus :
             /\ engine_status' = status
             /\ exc' = IF status # 0 THEN [kind |-> "SystemExit", code |-> status]
                       ELSE NoException
       \/ /\ exc' = [kind |-> "EngineError", code |-> 1]
          /\ UNCHANGED engine_status
    /\ pc' = "cleanup"
    /\ UNCHANGED <<configVars, options, snakefile, parseVars, inputVars,
                   keep_snakemake, snk_resources, pipeline, stagingVars,
                   early_return, result>>

\* run.py lines 262-263 and _save_dag, lines 276-316: --dag is appended to the
\* list, the engine's status is dropped, and the graph is saved, or the
\* output holds no graph (self.error, exit=True), or dot is missing (line 315
\* raises)
RunSaveDag ==
    /\ pc = "body"
    /\ dag
    /\ args' = Append(args, <<"-", "-", "d", "a", "g">>)
    /\ engine_calls' = Append(engine_calls, args')
    /\ \E made \in BOOLEAN :
          workdir' = IF made THEN workdir \cup {DotSnakemake} ELSE workdir
    /\ \/ /\ exc' = NoException
          /\ early_return' = TRUE
       \/ /\ exc' = error(TRUE)
          /\ UNCHANGED early_return
       \/ /\ exc' = [kind |-> "TypeError", code |-> 1]
          /\ UNCHANGED early_return
    /\ pc' = "cleanup"
    /\ UNCHANGED <<configVars, options, snakefile, ctx_args, target, scan,
                   targets_and_or_snakemake, inputVars, keep_snakemake,
                   snk_resources, pipeline, stagingVars, engine_status, result>>


\* the removal placed after the yield instead of in a finally block: an
\* exception in flight skips it
CopyExit_NoFinally ==
    /\ pc = "cleanup"
    /\ IF keep_resources \/ exc.kind # "none"
       THEN UNCHANGED <<workdir, removed>>
       ELSE /\ workdir' = workdir \ Range(copied_resources)
            /\ removed' = removed \cup (Range(copied_resources) \cap workdir)
    /\ exc' = exc
    /\ IF exc.kind # "none"
       THEN /\ result' = exc
            /\ pc' = "done"
       ELSE IF early_return
            THEN /\ result' = [kind |-> "returned", code |-> 0]
                 /\ pc' = "done"
            ELSE /\ result' = result
                 /\ pc' = "post"
    /\ UNCHANGED <<configVars, options, snakefile, parseVars, inputVars,
                   keep_snakemake, snk_resources, pipeline, i, yielded,
                   copied_resources, skipped, early_return, engine_calls,
                   engine_status>>

\* the finally block of _copy_resources, run.py lines 384-394. Without
\* cleanup it returns: the generator ends, which drops the exception in
\* flight when the body had started, and is "generator didn't yield"
\* (RuntimeError) when it had not. With cleanup every recorded destination
\* that exists is removed and the exception goes on.
CopyExit ==
    /\ pc = "cleanup"
    /\ IF keep_resources
       THEN /\ UNCHANGED <<workdir, removed>>
            /\ exc' = NoException
            /\ IF ~yielded
               THEN /\ result' = [kind |-> "RuntimeError", code |-> 1]
                    /\ pc' = "done"
               ELSE IF early_return
                    THEN /\ result' = [kind |-> "returned", code |-> 0]
                         /\ pc' = "done"
                    ELSE /\ result' = result
                         /\ pc' = "post"
       ELSE /\ workdir' = workdir \ Range(copied_resources)
            /\ removed' = removed \cup (Range(copied_resources) \cap workdir)
            /\ exc' = exc
            /\ IF exc.kind # "none"
               THEN /\ result' = exc
                    /\ pc' = "done"
               ELSE IF early_return
                    THEN /\ result' = [kind |-> "returned", code |-> 0]
                         /\ pc' = "done"
                    ELSE /\ result' = result
                         /\ pc' = "post"
    /\ UNCHANGED <<configVars, options, snakefile, parseVars, inputVars,
                   keep_snakemake, snk_resources, pipeline, i, yielded,
                   copied_resources, skipped, early_return, engine_calls,
                   engine_status>>

\* run.py lines 271-274: the .snakemake directory is removed unless kept
RunCleanupSnakemake ==
    /\ pc = "post"
    /\ workdir' = IF ~keep_snakemake /\ DotSnakemake \in workdir
                  THEN workdir \ {DotSnakemake} ELSE workdir
    /\ result' = [kind |-> "returned", code |-> 0]
    /\ pc' = "done"
    /\ UNCHANGED <<configVars, options, snakefile, parseVars, inputVars,
                   keep_snakemake, snk_resources, pipeline, stagingVars, exc,
                   early_return, engine_calls, engine_status>>

NextRun ==
    \/ Construct
    \/ SnakefileRemoved
    \/ RunAssemble
    \/ RunAddResources
    \/ CopyEnter
    \/ StageResource
    \/ StageDone
    \/ RunEngine
    \/ RunSaveDag
    \/ CopyExit
    \/ RunCleanupSnakemake

\* the exit status of the command: a return is 0, SystemExit and typer.Exit
\* carry theirs, any other exception ends the process with 1
ExitStatus ==
    result.code

\* nothing has run yet
RunStart ==
    /\ pc = "construct"
    /\ flat_config = <<>>
    /\ merged = PyDict(<<>>)
    /\ options = <<>>
    /\ snakefile = <<>>
    /\ scan = ParseStart
    /\ targets_and_or_snakemake = <<>>
    /\ args = <<>>
    /\ keep_snakemake \in BOOLEAN
    /\ keep_snakemake_option = keep_snakemake
    /\ workdir = workdir0
    /\ i = 0
    /\ yielded = FALSE
    /\ copied_resources = <<>>
    /\ skipped = {}
    /\ removed = {}
    /\ exc = NoException
    /\ early_return = FALSE
    /\ engine_calls = <<>>
    /\ engine_status = -1
    /\ result = Running

\* the resource lists of at most n paths
ResourceLists(n) ==
    UNION {[1..m -> ResourcePaths] : m \in 0..n}

(***************************************************************************)
(* Spec: the run command over the pipelines, working directories and       *)
(* resource lists of the bounds, with two argument vectors.                *)
(***************************************************************************)
Init ==
    /\ snakemake_config =
          PyDict(<<[k |-> <<"a">>, v |-> PyDict(<<[k |-> <<"b">>, v |-> PyInt(<<"1">>)]>>)]>>)
    /\ annotations = PyDict(<<>>)
    /\ ctx_args \in {<<>>, <<PyStr(<<"-", "-", "a", "_", "b">>), PyInt(<<"2">>)>>}
    /\ target = <<"a", "l", "l">>
    /\ flags \in {f \in RunOptionCases : ~f.conda_found /\ ~f.require_conda}
    /\ keep_resources \in BOOLEAN
    /\ dag \in BOOLEAN
    /\ resource \in {<<>>, <<<<"r", "e", "f">>>>, <<MissingResource>>}
    /\ snk_resources \in ResourceLists(MaxResources)
    /\ \E snakefiles \in SUBSET {<<"S", "n", "a", "k", "e", "f", "i", "l", "e">>, <<"w", "o", "r", "k", "f", "l", "o", "w", "/", "S", "n", "a", "k", "e", "f", "i", "l", "e">>},
          folder \in SUBSET {ResourcesFolder} :
          pipeline = ResourcePaths \cup snakefiles \cup folder
    /\ workdir0 \in SUBSET {<<"d", "a", "t", "a", ".", "t", "x", "t">>, DotSnakemake}
    /\ RunStart

Spec ==
    Init /\ [][NextRun]_vars

(***************************************************************************)
(* SpecArgs: the run command over the argument vectors of the bounds, in   *)
(* one pipeline with one resource.                                         *)
(***************************************************************************)
InitArgs ==
    /\ snakemake_config =
          PyDict(<<[k |-> <<"a">>, v |-> PyDict(<<[k |-> <<"b">>, v |-> PyInt(<<"1">>)]>>)],
                   [k |-> <<"t", "e", "x", "t">>, v |-> PyStr(<<"h", "i">>)]>>)
    /\ annotations = PyDict(<<>>)
    /\ ctx_args \in ArgVectors(
          {PyStr(<<"-", "-", "a", "_", "b">>), PyStr(<<"-", "-", "t", "e", "x", "t">>), PyInt(<<"1">>), PyInt(<<"2">>), PyStr(<<"h", "i">>),
           PyStr(<<"-", "-", "d", "r", "y", "-", "r", "u", "n">>), PyStr(<<"-", "-", "s", "n", "a", "k", "e", "-", "n">>), PyStr(<<"-", "-", "u", "s", "e", "-", "s", "i", "n", "g", "u", "l", "a", "r", "i", "t", "y">>)},
          MaxRunArgs)
    /\ target \in {<<>>, <<"a", "l", "l">>}
    /\ flags \in RunOptionCases
    /\ keep_resources = FALSE
    /\ dag \in BOOLEAN
    /\ resource = <<>>
    /\ snk_resources = <<<<"d", "a", "t", "a", ".", "t", "x", "t">>>>
    /\ pipeline = ResourcePaths \cup {<<"S", "n", "a", "k", "e", "f", "i", "l", "e">>}
    /\ workdir0 = {}
    /\ RunStart

SpecArgs ==
    InitArgs /\ [][NextRun]_vars

(***************************************************************************)
(* Properties.                                                             *)
(***************************************************************************)
\* the token is a str that begins with the flag prefix
HasFlagPrefix(tok) ==
    tok.ty = "str" /\ StartsWith(tok.val, <<"-">>)

\* the token is a flag whose stripped form is a descriptor name
MatchesDescriptor(tok) ==
    HasFlagPrefix(tok) /\ LStrip(tok.val, "-") \in OptionNames(options)

\* the token is a flag whose stripped form is no descriptor name
UnmatchedFlag(tok) ==
    HasFlagPrefix(tok) /\ LStrip(tok.val, "-") \notin OptionNames(options)

\* the descriptor a matching flag token names
FlagOption(tok) ==
    FirstOption(options, LStrip(tok.val, "-"))

\* the overrides that came from the flag at position f of ctx.args
OverridesFrom(f) ==
    {j \in 1..Len(scan.config) : scan.origin[j] = f}

\* the key an override of the descriptor op is filed under
OverrideKey(op) ==
    IF Contains(op.original_key, ":") THEN Split(op.original_key, ":")[1]
    ELSE op.name

\* the place in the passthrough list of the token at position f of ctx.args
PassIndex(f) ==
    Cardinality({j \in 1..f : scan.roles[j] = "pass"})

\* the list holds part as one block
HoldsBlock(list, part) ==
    \E off \in 0..(Len(list) - Len(part)) :
        SubSeq(list, off + 1, off + Len(part)) = part

Missing ==
    [ty |-> "missing", val |-> <<>>, items |-> <<>>]

RECURSIVE LeafAt(_, _)
\* the value reached from node by the path of keys through one-entry dicts
LeafAt(node, path) ==
    IF path = <<>> THEN node
    ELSE IF node.ty = "dict" /\ Len(node.items) = 1
            /\ node.items[1].k = Head(path)
         THEN LeafAt(node.items[1].v, Tail(path))
         ELSE Missing

\* the key=value string of override j, as the engine is to receive it
OverrideString(j) ==
    scan.config[j].items[1].k \o <<"=">> \o Str(scan.config[j].items[1].v)

\* C1: in RunApp.run, a descriptor flag followed by a value that, serialised,
\* equals the descriptor's default yields no override; followed by any other
\* value it yields exactly one override, filed under the descriptor's key,
\* and every engine call holds its key=value string.
C1_DefaultSuppression ==
    \A f \in 1..(Len(scan.roles) - 1) :
        scan.roles[f] = "flag" =>
            LET op == FlagOption(ctx_args[f])
                value == ctx_args[f + 1]
            IN  IF PyEq(op.default, serialise(value))
                THEN OverridesFrom(f) = {}
                ELSE /\ Cardinality(OverridesFrom(f)) = 1
                     /\ \A j \in OverridesFrom(f) :
                          /\ scan.config[j].ty = "dict"
                          /\ Len(scan.config[j].items) = 1
                          /\ scan.config[j].items[1].k = OverrideKey(op)
                          /\ \A c \in 1..Len(engine_calls) :
                                OverrideString(j) \in Range(engine_calls[c])

\* C1 witness: default 1 and `--a_b 1 all`: the engine was called with the
\* passthrough ["all"] and no override.
C1_Witness ==
    /\ engine_calls # <<>>
    /\ ctx_args = <<PyStr(<<"-", "-", "a", "_", "b">>), PyInt(<<"1">>), PyStr(<<"a", "l", "l">>)>>
    /\ scan.config = <<>>
    /\ scan.parsed = <<PyStr(<<"a", "l", "l">>)>>
    /\ <<"-", "-", "c", "o", "n", "f", "i", "g">> \notin Range(engine_calls[1])

\* C2 as stated: a flag token that matches no descriptor name and the token
\* right after it both appear, in this order and unmodified, in the
\* passthrough list handed to the engine.
C2_PassthroughAsStated ==
    \A c \in 1..Len(engine_calls) :
        /\ HoldsBlock(engine_calls[c], targets_and_or_snakemake)
        /\ \A f \in 1..Len(ctx_args) :
              UnmatchedFlag(ctx_args[f]) =>
                  \E p \in 1..Len(targets_and_or_snakemake) :
                      /\ targets_and_or_snakemake[p] = ctx_args[f].val
                      /\ f < Len(ctx_args) =>
                            \E q \in (p + 1)..Len(targets_and_or_snakemake) :
                                targets_and_or_snakemake[q] = ctx_args[f + 1].val

\* C2: a flag token that matches no descriptor name and is not itself taken
\* as the value of a pending descriptor flag is in the passthrough list; the
\* token after it is right behind it there unless it matches a descriptor
\* name; the engine is handed the list as one block, each token as given
\* but for `--snake-` replaced by `-`.
C2_Passthrough ==
    \A c \in 1..Len(engine_calls) :
        /\ HoldsBlock(engine_calls[c], targets_and_or_snakemake)
        /\ Len(targets_and_or_snakemake) = PassIndex(Len(scan.roles))
        /\ \A f \in 1..Len(ctx_args) :
              (UnmatchedFlag(ctx_args[f]) /\ scan.roles[f] # "value") =>
                  /\ scan.roles[f] = "pass"
                  /\ PassIndex(f) <= Len(targets_and_or_snakemake)
                  /\ targets_and_or_snakemake[PassIndex(f)]
                        = Replace(ctx_args[f].val, <<"-", "-", "s", "n", "a", "k", "e", "-">>, <<"-">>)
                  /\ (f < Len(ctx_args) /\ ~MatchesDescriptor(ctx_args[f + 1])) =>
                        /\ scan.roles[f + 1] = "pass"
                        /\ PassIndex(f) + 1 <= Len(targets_and_or_snakemake)
                        /\ targets_and_or_snakemake[PassIndex(f) + 1]
                              = Replace(ctx_args[f + 1].val, <<"-", "-", "s", "n", "a", "k", "e", "-">>, <<"-">>)

\* C2 witness: `--dry-run hi all` reached the engine as given.
C2_Witness ==
    /\ engine_calls # <<>>
    /\ ctx_args = <<PyStr(<<"-", "-", "d", "r", "y", "-", "r", "u", "n">>), PyStr(<<"h", "i">>), PyStr(<<"a", "l", "l">>)>>
    /\ targets_and_or_snakemake = <<<<"-", "-", "d", "r", "y", "-", "r", "u", "n">>, <<"h", "i">>, <<"a", "l", "l">>>>

\* C3: the descriptors build_dynamic_cli_options returns have pairwise
\* distinct names (it has no failure to end with instead).
C3_UniqueNames ==
    pc = "built" =>
        \A x, y \in 1..Len(options) :
            x # y => options[x].name # options[y].name

\* C4 as stated: a destination that existed when staging reached it is
\* skipped and never removed at exit, and what is removed at exit was copied
\* by this invocation.
C4_StagingAsStated ==
    /\ skipped \cap removed = {}
    /\ removed \subseteq Range(copied_resources)

\* C4: what is removed at exit was copied by this invocation and did not
\* exist when the command started; a skipped destination is never removed
\* unless this invocation had created it for an earlier resource of the
\* same name.
C4_Staging ==
    /\ removed \subseteq Range(copied_resources)
    /\ removed \cap workdir0 = {}
    /\ (skipped \cap removed) \subseteq Range(copied_resources)
    /\ \A d \in skipped \ Range(copied_resources) :
          d \in workdir0 /\ d \in workdir

\* C4 witness: data.txt existed, was skipped and is still there after a
\* cleanup that removed another resource.
C4_Witness ==
    /\ pc = "done"
    /\ <<"d", "a", "t", "a", ".", "t", "x", "t">> \in workdir0
    /\ <<"d", "a", "t", "a", ".", "t", "x", "t">> \in skipped
    /\ <<"d", "a", "t", "a", ".", "t", "x", "t">> \in workdir
    /\ removed # {}

\* the staging scope was entered and has been left
ScopeLeft ==
    i >= 1 /\ pc \in {"post", "done"}

\* C5: once the staging scope has been left, with cleanup every destination
\* this invocation staged is absent from the working directory, however the
\* scope was left; without cleanup none was removed.
C5_Cleanup ==
    ScopeLeft =>
        IF ~keep_resources
        THEN \A d \in Range(copied_resources) : d \notin workdir
        ELSE /\ removed = {}
             /\ \A d \in Range(copied_resources) : d \in workdir

\* C5 witness: the second copy failed and the first, staged, was removed.
C5_Witness ==
    /\ pc = "done"
    /\ ~keep_resources
    /\ ~yielded
    /\ result.kind = "OSError"
    /\ copied_resources # <<>>
    /\ removed = Range(copied_resources)

\* C6: the command ends with the status the engine call ended with.
C6_ExitStatus ==
    (pc = "done" /\ engine_status >= 0) => ExitStatus = engine_status

\* C7: every override is a one-entry mapping; for a descriptor whose
\* original_key holds the delimiter its key is the first segment and its
\* value nests the remaining segments down to the supplied value, otherwise
\* its key is the descriptor name and its value the supplied value; no key
\* holds the delimiter.
C7_NestedOverride ==
    pc = "parsed" =>
        \A j \in 1..Len(scan.config) :
            LET f == scan.origin[j]
                op == FlagOption(ctx_args[f])
                value == ctx_args[f + 1]
                entry == scan.config[j]
                parts == Split(op.original_key, ":")
            IN  /\ entry.ty = "dict"
                /\ Len(entry.items) = 1
                /\ ~Contains(entry.items[1].k, ":")
                /\ IF Contains(op.original_key, ":")
                   THEN /\ entry.items[1].k = parts[1]
                        /\ LeafAt(entry.items[1].v, Tail(parts)) = value
                   ELSE /\ entry.items[1].k = op.name
                        /\ entry.items[1].v = value

\* C7 witness: config {a: {b: 1}} and `--a_b 2 all` gave the passthrough
\* ["all"] and the override {a: {b: 2}}.
C7_Witness ==
    /\ pc = "parsed"
    /\ ctx_args = <<PyStr(<<"-", "-", "a", "_", "b">>), PyInt(<<"2">>), PyStr(<<"a", "l", "l">>)>>
    /\ FlagOption(ctx_args[1]).original_key = <<"a", ":", "b">>
    /\ scan.parsed = <<PyStr(<<"a", "l", "l">>)>>
    /\ scan.config = <<PyDict(<<[k |-> <<"a">>,
                                 v |-> PyDict(<<[k |-> <<"b">>, v |-> PyInt(<<"2">>)]>>)]>>)>>

\* C8: when a requested --resource path does not exist, the run stops at
\* add_resources with the reported error: nothing is staged, the working
\* directory is as it was and the engine is never called.
C8_MissingResource ==
    AddResourcesRaises(resource, pipeline) =>
        /\ pc \in {"construct", "ready", "add_resources", "done"}
        /\ copied_resources = <<>>
        /\ workdir = workdir0
        /\ engine_calls = <<>>
        /\ (pc = "done" /\ scan.roles # <<>>) => result = [kind |-> "Exit", code |-> 1]

\* C8 witness: the run ended with the reported error while resources were
\* listed for staging.
C8_Witness ==
    /\ pc = "done"
    /\ AddResourcesRaises(resource, pipeline)
    /\ result.kind = "Exit"
    /\ snk_resources # <<>>

\* C9: a resource is staged or the engine called only with a resolved
\* snakefile that exists; when none is found at construction or the
\* resolved one is gone when run executes, the command fails with nothing
\* staged and no engine call.
C9_SnakefileFirst ==
    /\ (\/ pc \in {"add_resources", "copy_enter", "staging", "body", "cleanup", "post"}
        \/ copied_resources # <<>>
        \/ engine_calls # <<>>
        \/ workdir # workdir0)
       => (snakefile # <<>> /\ snakefile \in pipeline)
    /\ (pc = "done" /\ (snakefile = <<>> \/ snakefile \notin pipeline))
       => /\ result.kind \in {"FileNotFoundError", "ValueError"}
          /\ copied_resources = <<>>
          /\ engine_calls = <<>>
          /\ workdir = workdir0

\* C9 witness: the resolved snakefile was gone when run executed, with
\* resources listed for staging.
C9_Witness ==
    /\ pc = "done"
    /\ result.kind = "ValueError"
    /\ snakefile # <<>>
    /\ snk_resources # <<>>

\* the list ends with --config and one key=value string per override, in
\* override order
EndsWithConfigBlock(list) ==
    LET n == Len(scan.config)
    IN  /\ Len(list) > n
        /\ list[Len(list) - n] = <<"-", "-", "c", "o", "n", "f", "i", "g">>
        /\ \A j \in 1..n : list[Len(list) - n + j] = OverrideString(j)

\* C10 as stated: the engine's list holds --config iff there are overrides,
\* and then as its last block, with one key=value string per override in
\* order.
C10_ConfigBlockAsStated ==
    \A c \in 1..Len(engine_calls) :
        /\ (<<"-", "-", "c", "o", "n", "f", "i", "g">> \in Range(engine_calls[c])) <=> (scan.config # <<>>)
        /\ scan.config # <<>> => EndsWithConfigBlock(engine_calls[c])

\* C10: the engine's list holds --config iff there are overrides, and then
\* as the last block of the list run built, with one key=value string per
\* override in order; with --dag the one token --dag follows that block.
C10_ConfigBlock ==
    \A c \in 1..Len(engine_calls) :
        LET call == engine_calls[c]
            built == IF dag THEN SubSeq(call, 1, Len(call) - 1) ELSE call
        IN  /\ (<<"-", "-", "c", "o", "n", "f", "i", "g">> \in Range(call)) <=> (scan.config # <<>>)
            /\ dag => (call # <<>> /\ call[Len(call)] = <<"-", "-", "d", "a", "g">>)
            /\ scan.config # <<>> => EndsWithConfigBlock(built)

\* C10 witness: `--a_b 2` reached the engine as a={'b': 2} behind --config,
\* the last block of the list.
C10_Witness ==
    /\ engine_calls # <<>>
    /\ ~dag
    /\ Len(scan.config) = 1
    /\ scan.parsed # <<>>
    /\ engine_calls[1][Len(engine_calls[1])] = <<"a", "=", "{", "'", "b", "'", ":", " ", "2", "}">>
    /\ engine_calls[1][Len(engine_calls[1]) - 1] = <<"-", "-", "c", "o", "n", "f", "i", "g">>

\* C11: a step of the run command removes the .snakemake directory only
\* after an engine call that ended with status 0 and only when
\* --keep-snakemake was not given; with the option given, or after a nonzero
\* engine exit, no step removes it.
C11_SnakemakeCleanup ==
    [][(DotSnakemake \in workdir /\ DotSnakemake \notin workdir')
          => (engine_status = 0 /\ ~keep_snakemake_option)]_vars

\* the number of places of the sequence that hold x
Count(s, x) ==
    Cardinality({j \in 1..Len(s) : s[j] = x})

\* C12: a step of the run command changes SnkConfig.resources only in
\* add_resources, which appends the requested paths not already present, so
\* that no path is held more often than before unless it was absent;
\* staging and the engine call leave the sequence as it is.
C12_ResourcesFrame ==
    [][snk_resources' # snk_resources
          => /\ pc = "add_resources"
             /\ snk_resources' = add_resources(snk_resources, resource)
             /\ \A x \in Range(snk_resources') :
                   Count(snk_resources', x) = IF x \in Range(snk_resources)
                                             THEN Count(snk_resources, x)
                                             ELSE 1]_vars

RECURSIVE HasEmptyMapping(_)
\* some value of the entries, at any depth, is a mapping with no entry
HasEmptyMapping(entries) ==
    \E j \in 1..Len(entries) :
        /\ entries[j].v.ty = "dict"
        /\ (entries[j].v.items = <<>> \/ HasEmptyMapping(entries[j].v.items))

\* a flat key without the delimiter unflattens to one entry under that key
OneLevel ==
    \A j \in 1..Len(flat_config) :
        ~Contains(flat_config[j].k, ":") =>
            convert_key_to_samkemake_format(flat_config[j].k, flat_config[j].v)
                = PyDict(<<[k |-> flat_config[j].k, v |-> flat_config[j].v]>>)

Annotated(key, field) ==
    \E e \in Range(flatten(annotations)) : e.k = key \o <<":">> \o field

\* the value the flattened annotations hold for the field of the flat key
AnnotationOf(key, field) ==
    (CHOOSE e \in Range(flatten(annotations)) : e.k = key \o <<":">> \o field).v

\* C14: build_dynamic_cli_options returns one descriptor per flat key of the
\* configuration, in flatten order, with the key and its value as
\* original_key and default; the name is the annotated name if there is one,
\* else the flat key with `:` replaced by `_`, in both cases with `-`
\* replaced by `_`, so that it holds no hyphen; type, required and help are
\* the annotated ones, else the type name of the default, false and the
\* empty string.
C14_DescriptorSynthesis ==
    pc = "built" =>
        LET flat == flatten(snakemake_config)
        IN  /\ Len(options) = Len(flat)
            /\ \A j \in 1..Len(flat) :
                  LET key == flat[j].k
                      op == options[j]
                      base == IF Annotated(key, <<"n", "a", "m", "e">>)
                              THEN AnnotationOf(key, <<"n", "a", "m", "e">>).val
                              ELSE ReplaceChar(key, ":", "_")
                  IN  /\ op.original_key = key
                      /\ op.default = flat[j].v
                      /\ op.name = ReplaceChar(base, "-", "_")
                      /\ ~Contains(op.name, "-")
                      /\ op.type = IF Annotated(key, <<"t", "y", "p", "e">>)
                                   THEN AnnotationOf(key, <<"t", "y", "p", "e">>).val
                                   ELSE TypeName(flat[j].v)
                      /\ op.required = IF Annotated(key, <<"r", "e", "q", "u", "i", "r", "e", "d">>)
                                       THEN AnnotationOf(key, <<"r", "e", "q", "u", "i", "r", "e", "d">>)
                                       ELSE PyBool(FALSE)
                      /\ op.help = IF Annotated(key, <<"h", "e", "l", "p">>)
                                   THEN AnnotationOf(key, <<"h", "e", "l", "p">>).val
                                   ELSE <<>>

\* C14 witness: config {a: {b: 1}, a-b: hi} with a:b annotated x-y gave the
\* descriptors x_y, with the annotated fields, and a_b, with the defaults.
C14_Witness ==
    /\ pc = "built"
    /\ Len(options) = 2
    /\ options[1] = [name |-> <<"x", "_", "y">>, original_key |-> <<"a", ":", "b">>,
                     default |-> PyInt(<<"1">>), help |-> <<"h">>,
                     type |-> <<"s", "t", "r">>, required |-> PyBool(TRUE)]
    /\ options[2] = [name |-> <<"a", "_", "b">>, original_key |-> <<"a", "-", "b">>,
                     default |-> PyStr(<<"h", "i">>), help |-> <<>>,
                     type |-> <<"s", "t", "r">>, required |-> PyBool(FALSE)]

\* C15 as stated: every token that matches a descriptor name is kept out of
\* the passthrough list, and the token after it is consumed as its value.
C15_PendingFlagAsStated ==
    pc = "parsed" =>
        \A f \in 1..Len(ctx_args) :
            MatchesDescriptor(ctx_args[f]) =>
                /\ scan.roles[f] # "pass"
                /\ f < Len(ctx_args) => scan.roles[f + 1] = "value"

\* C15: a token that matches a descriptor name is never passed through; it
\* is the pending flag unless it is itself consumed as the value of the
\* flag before it, and the token after a pending flag is consumed as its
\* value whatever its shape: it is not passed through and is not taken as a
\* flag.
C15_PendingFlag ==
    pc = "parsed" =>
        \A f \in 1..Len(ctx_args) :
            /\ MatchesDescriptor(ctx_args[f]) =>
                  /\ scan.roles[f] \in {"flag", "value"}
                  /\ scan.roles[f] = "value" <=> (f > 1 /\ scan.roles[f - 1] = "flag")
            /\ (scan.roles[f] = "flag" /\ f < Len(ctx_args)) =>
                  /\ scan.roles[f + 1] = "value"
                  /\ Len(scan.parsed) = PassIndex(Len(ctx_args))
                  /\ PassIndex(f + 1) = PassIndex(f - 1)

\* C15 witness: in `--a_b --dry-run all` the engine flag was consumed as the
\* value of --a_b and only the target was passed through.
C15_Witness ==
    /\ pc = "parsed"
    /\ ctx_args = <<PyStr(<<"-", "-", "a", "_", "b">>),
                    PyStr(<<"-", "-", "d", "r", "y", "-", "r", "u", "n">>),
                    PyStr(<<"a", "l", "l">>)>>
    /\ scan.roles = <<"flag", "value", "pass">>
    /\ scan.parsed = <<PyStr(<<"a", "l", "l">>)>>
    /\ Len(scan.config) = 1

\* the positions of ctx.args the loop gave the role
RolePositions(role) ==
    {f \in 1..Len(scan.roles) : scan.roles[f] = role}

\* C16: the loop raises on no sequence of str tokens; when it has gone
\* through, every token is one of passthrough, matched flag and consumed
\* value: the passthrough list is the tokens passed through, in input order,
\* a flag is a matching token not right behind a flag, a value is the token
\* right behind a flag; the overrides come from flags in input order, at
\* most one per flag; a flag that is the last token gives no override and no
\* passthrough token.
C16_TokenAccounting ==
    /\ pc = "raised" => \E f \in 1..Len(ctx_args) : ctx_args[f].ty # "str"
    /\ pc = "parsed" =>
          LET n == Len(ctx_args)
          IN  /\ Len(scan.roles) = n
              /\ \A f \in 1..n :
                    /\ scan.roles[f] \in {"pass", "flag", "value"}
                    /\ scan.roles[f] = "value" <=> (f > 1 /\ scan.roles[f - 1] = "flag")
                    /\ scan.roles[f] = "flag" =>
                          /\ MatchesDescriptor(ctx_args[f])
                          /\ Cardinality(OverridesFrom(f)) <= 1
                          /\ f = n => OverridesFrom(f) = {}
                    /\ scan.roles[f] = "pass" =>
                          /\ ~MatchesDescriptor(ctx_args[f])
                          /\ scan.parsed[PassIndex(f)] = ctx_args[f]
              /\ Len(scan.parsed) = Cardinality(RolePositions("pass"))
              /\ Len(scan.origin) = Len(scan.config)
              /\ \A j \in 1..Len(scan.config) :
                    /\ scan.origin[j] \in RolePositions("flag")
                    /\ j > 1 => scan.origin[j - 1] < scan.origin[j]
              /\ Len(scan.config) <= Cardinality(RolePositions("flag"))

\* C16 witness: in `--text 1 --a_b` the value gave one override and the
\* flag left pending at the end gave nothing.
C16_Witness ==
    /\ pc = "parsed"
    /\ ctx_args = <<PyStr(<<"-", "-", "t", "e", "x", "t">>), PyStr(<<"1">>),
                    PyStr(<<"-", "-", "a", "_", "b">>)>>
    /\ scan.roles = <<"flag", "value", "flag">>
    /\ scan.parsed = <<>>
    /\ scan.config = <<PyDict(<<[k |-> <<"t", "e", "x", "t">>, v |-> PyStr(<<"1">>)]>>)>>

\* C17: a .snakemake directory that was in the working directory when the
\* command started is there in every state of the run, whatever
\* --keep-snakemake and the engine's exit status are: once run.py line 251
\* has seen it, keep_snakemake is True and the post-run cleanup leaves it.
C17_PreExistingPreserved ==
    DotSnakemake \in workdir0 =>
        /\ DotSnakemake \in workdir
        /\ pc \in {"copy_enter", "staging", "body", "cleanup", "post"} => keep_snakemake

\* C17 witness: without --keep-snakemake the engine ended with status 0, the
\* post-run cleanup ran, and the .snakemake directory of before is there.
C17_Witness ==
    /\ pc = "done"
    /\ DotSnakemake \in workdir0
    /\ ~keep_snakemake_option
    /\ engine_status = 0
    /\ ~early_return
    /\ result = [kind |-> "returned", code |-> 0]
    /\ DotSnakemake \in workdir

====
